---- MODULE Spec2Model ----
(***************************************************************************)
(* Model of brazilfiscalreport.dacte.dacteos.DacteOS: the constructor     *)
(* parses a CT-e OS document, extracts the display fields and then runs   *)
(* the drawing phases in a fixed order on one page.                        *)
(*                                                                         *)
(* Text is a sequence of one-character strings, so that slicing,          *)
(* stripping, replacing and number formatting are computed as Python      *)
(* computes them.  Lengths on the page are counted in units of the        *)
(* imported constant `mm`, relative to the top margin.                     *)
(***************************************************************************)
EXTENDS Integers, Sequences, FiniteSets, TLC

VARIABLES doc, pc, self, y, ops, err, page

vars == <<doc, pc, self, y, ops, err, page>>

(***************************************************************************)
(* Bounds of the model.                                                    *)
(***************************************************************************)
\* a document differs from the reference document in at most MaxDev places
MaxDev == 2

(***************************************************************************)
(* DacteOSLayout defaults (in units of mm).                                *)
(***************************************************************************)
receipt_height == 17
header_height == 70
percurso_height == 14
tomador_height == 24
service_height == 48
documents_height == 37
modal_height == 26
footer_height == 8

(***************************************************************************)
(* Python string primitives on character sequences.                        *)
(***************************************************************************)
Min(a, b) == IF a < b THEN a ELSE b

DigitChars == <<"0", "1", "2", "3", "4", "5", "6", "7", "8", "9">>

IsDigit(c) == \E i \in 1..10 : DigitChars[i] = c

DigitVal(c) == (CHOOSE i \in 1..10 : DigitChars[i] = c) - 1

AllDigits(s) == \A i \in 1..Len(s) : IsDigit(s[i])

\* s[a:b] for 0 <= a <= b: out-of-range bounds are clipped, never an error
Slice(s, a, b) == IF a >= Min(b, Len(s)) THEN <<>> ELSE SubSeq(s, a + 1, Min(b, Len(s)))

IsSpace(c) == c \in {" ", "\n", "\t"}

RECURSIVE LStrip(_)
LStrip(s) == IF s # <<>> /\ IsSpace(Head(s)) THEN LStrip(Tail(s)) ELSE s

RECURSIVE RStrip(_)
RStrip(s) == IF s # <<>> /\ IsSpace(s[Len(s)]) THEN RStrip(SubSeq(s, 1, Len(s) - 1)) ELSE s

\* str.strip()
Strip(s) == RStrip(LStrip(s))

StartsWith(s, p) == Len(s) >= Len(p) /\ SubSeq(s, 1, Len(p)) = p

\* str.replace(p, r): every non-overlapping occurrence of p, left to right
RECURSIVE ReplaceAll(_, _, _)
ReplaceAll(s, p, r) ==
    IF s = <<>> THEN <<>>
    ELSE IF StartsWith(s, p) THEN r \o ReplaceAll(SubSeq(s, Len(p) + 1, Len(s)), p, r)
    ELSE <<Head(s)>> \o ReplaceAll(Tail(s), p, r)

\* ' '.join(parts)
RECURSIVE JoinSp(_)
JoinSp(parts) ==
    IF parts = <<>> THEN <<>>
    ELSE IF Len(parts) = 1 THEN parts[1]
    ELSE parts[1] \o <<" ">> \o JoinSp(Tail(parts))

\* int(s) succeeds on a non-empty run of decimal digits (the documents of
\* this model carry no sign, underscore or blank inside a key)
IntParses(s) == s # <<>> /\ AllDigits(s)

RECURSIVE IntOf(_)
IntOf(s) == IF s = <<>> THEN 0 ELSE IntOf(SubSeq(s, 1, Len(s) - 1)) * 10 + DigitVal(s[Len(s)])

RECURSIVE DigitsOf(_)
DigitsOf(n) == IF n < 10 THEN <<DigitChars[n + 1]>> ELSE DigitsOf(n \div 10) \o <<DigitChars[(n % 10) + 1]>>

RECURSIVE ZFill(_, _)
ZFill(s, w) == IF Len(s) >= w THEN s ELSE ZFill(<<"0">> \o s, w)

\* f"{n:0{w}d}"
Pad(n, w) == ZFill(DigitsOf(n), w)

\* length of d digits once a separator stands between groups of three
GroupedLen(d) == d + ((d - 1) \div 3)

\* the fewest digits whose grouped form fills the field width w
RECURSIVE MinDigits(_, _)
MinDigits(w, d) == IF GroupedLen(d) >= w THEN d ELSE MinDigits(w, d + 1)

RECURSIVE Group3(_, _)
Group3(s, sep) ==
    IF Len(s) <= 3 THEN s
    ELSE Group3(SubSeq(s, 1, Len(s) - 3), sep) \o <<sep>> \o SubSeq(s, Len(s) - 2, Len(s))

\* f"{n:0{w},}": zero fill is applied before grouping, the width counts the
\* separators
FormatGrouped(n, w) == Group3(ZFill(DigitsOf(n), MinDigits(w, 1)), ",")

ReplaceChar(s, a, b) == [i \in 1..Len(s) |-> IF s[i] = a THEN b ELSE s[i]]

(***************************************************************************)
(* datetime.fromisoformat and strftime("%d/%m/%Y %H:%M:%S").               *)
(* The parser covers the three shapes the documents of this model carry:   *)
(* a date, a date and a time, and a date and a time with a UTC offset.     *)
(* Any other text of the model is one Python rejects as well.              *)
(***************************************************************************)
NotParsed == [ok |-> FALSE, Y |-> 0, M |-> 0, D |-> 0, h |-> 0, m |-> 0, s |-> 0]

IsLeap(yr) == (yr % 4 = 0 /\ yr % 100 # 0) \/ yr % 400 = 0

DaysIn(yr, mo) ==
    IF mo = 2 THEN (IF IsLeap(yr) THEN 29 ELSE 28)
    ELSE IF mo \in {4, 6, 9, 11} THEN 30 ELSE 31

DateShape(s) ==
    /\ Len(s) >= 10
    /\ AllDigits(Slice(s, 0, 4)) /\ s[5] = "-"
    /\ AllDigits(Slice(s, 5, 7)) /\ s[8] = "-"
    /\ AllDigits(Slice(s, 8, 10))

TimeShape(s) ==
    /\ Len(s) >= 19
    /\ AllDigits(Slice(s, 11, 13)) /\ s[14] = ":"
    /\ AllDigits(Slice(s, 14, 16)) /\ s[17] = ":"
    /\ AllDigits(Slice(s, 17, 19))

OffsetShape(s) ==
    /\ Len(s) = 25
    /\ s[20] \in {"+", "-"}
    /\ AllDigits(Slice(s, 20, 22)) /\ s[23] = ":"
    /\ AllDigits(Slice(s, 23, 25))
    /\ IntOf(Slice(s, 20, 22)) < 24 /\ IntOf(Slice(s, 23, 25)) < 60

fromisoformat(s) ==
    IF ~(Len(s) \in {10, 19, 25}) \/ ~DateShape(s) THEN NotParsed
    ELSE LET yr == IntOf(Slice(s, 0, 4))
             mo == IntOf(Slice(s, 5, 7))
             dy == IntOf(Slice(s, 8, 10))
             dateOk == yr >= 1 /\ mo \in 1..12 /\ dy >= 1 /\ dy <= DaysIn(yr, mo)
         IN  IF ~dateOk THEN NotParsed
             ELSE IF Len(s) = 10
                  THEN [ok |-> TRUE, Y |-> yr, M |-> mo, D |-> dy, h |-> 0, m |-> 0, s |-> 0]
             ELSE IF ~TimeShape(s) \/ (Len(s) = 25 /\ ~OffsetShape(s)) THEN NotParsed
             ELSE LET hh == IntOf(Slice(s, 11, 13))
                      mi == IntOf(Slice(s, 14, 16))
                      ss == IntOf(Slice(s, 17, 19))
                  IN  IF hh < 24 /\ mi < 60 /\ ss < 60
                      THEN [ok |-> TRUE, Y |-> yr, M |-> mo, D |-> dy, h |-> hh, m |-> mi, s |-> ss]
                      ELSE NotParsed

strftime(t) ==
    Pad(t.D, 2) \o <<"/">> \o Pad(t.M, 2) \o <<"/">> \o Pad(t.Y, 4) \o <<" ">>
    \o Pad(t.h, 2) \o <<":">> \o Pad(t.m, 2) \o <<":">> \o Pad(t.s, 2)

(***************************************************************************)
(* The parsed tree.  A child that carries text is a leaf: q tells whether  *)
(* the child exists and whether its tag is in the CT-e namespace ("ns")    *)
(* or in no namespace ("plain"); nt is TRUE when its text is None.         *)
(***************************************************************************)
NoNode == [q |-> "none", nt |-> TRUE, text |-> <<>>]
Ns(t) == [q |-> "ns", nt |-> FALSE, text |-> t]
Plain(t) == [q |-> "plain", nt |-> FALSE, text |-> t]
NsNoText == [q |-> "ns", nt |-> TRUE, text |-> <<>>]

\* an element: present is FALSE for None; kids maps a tag to a leaf
None == [present |-> FALSE, kids |-> [x \in {} |-> NoNode]]
El(k) == [present |-> TRUE, kids |-> k]

Child(el, tag) == IF tag \in DOMAIN el.kids THEN el.kids[tag] ELSE NoNode

\* bool(element): an Element is true exactly when it has child elements
Truthy(el) == el.present /\ \E t \in DOMAIN el.kids : el.kids[t].q # "none"

\* utils.get_tag_text(node, URL, tag): text of the namespaced child, '' otherwise
get_tag_text(el, tag) ==
    LET c == Child(el, tag) IN IF c.q = "ns" /\ ~c.nt THEN c.text ELSE <<>>

\* the lookup without the second attempt by tag name
find_text_primary_only(el, tag) ==
    IF ~el.present THEN <<>>
    ELSE LET found == Child(el, tag) IN
         IF found.q = "plain" /\ ~found.nt THEN Strip(found.text) ELSE <<>>

find_text(el, tag) ==
    IF ~el.present THEN <<>>
    ELSE LET found == Child(el, tag) IN
         \* the xpath has no prefix: it matches a child in no namespace
         IF found.q = "plain" /\ ~found.nt THEN Strip(found.text)
         ELSE LET t == get_tag_text(el, tag) IN
              IF t # <<>> THEN Strip(t) ELSE <<>>

\* helpers of other modules (formatters, code tables): an application is kept
\* symbolic, as the name followed by the argument
App(fn, arg) == <<fn>> \o arg

format_number(t) == App("format_number", t)
format_cpf_cnpj(t) == App("format_cpf_cnpj", t)
format_cep(t) == App("format_cep", t)
format_phone(t) == App("format_phone", t)
TableGet(table, key) == App(table, key)

Zero == <<"0", ".", "0", "0">>
NA == <<"N", "/", "A">>

\* an attribute of the object that no statement has assigned
Unassigned == <<"<unassigned>">>

(***************************************************************************)
(* Input documents.  A document is the reference document (a complete,     *)
(* authorised, production CT-e OS) changed in at most MaxDev places; a     *)
(* place is a node that may be missing or a text that may differ.  The     *)
(* layout argument of the constructor is part of the input: header_height  *)
(* is its one height whose value moves a box relative to the cursor.       *)
(***************************************************************************)
Prefix22 == <<"3","5","2","4","0","1","1","2","3","4","5","6","7","8","0","0","0","1","9","5","6","7">>
Suffix10 == <<"1","0","0","0","0","4","3","2","1","7">>

\* a 44-digit access key: 22 digits, series (3), number (9), 10 digits
Chave(serie, nro) == Prefix22 \o serie \o nro \o Suffix10

KeyA == Chave(<<"0","0","1">>, <<"1","2","3","4","5","6","7","8","9">>)
KeyB == Chave(<<"1","2","0">>, <<"0","0","0","0","0","1","2","3","4">>)
KeyC == Chave(<<"9","9","9">>, <<"0","0","0","0","0","0","0","0","0">>)

CTePrefix == <<"C", "T", "e">>

IsoEmi == <<"2","0","2","4","-","0","1","-","1","5","T","1","0",":","3","0",":","0","0","-","0","3",":","0","0">>
IsoRec == <<"2","0","2","4","-","0","2","-","2","9","T","2","3",":","5","9",":","0","7">>
IsoDate == <<"2","0","2","4","-","1","2","-","3","1">>
BadMonth == <<"2","0","2","4","-","1","3","-","0","1","T","0","0",":","0","0",":","0","0">>
BadText == <<"1","5","/","0","1","/","2","0","2","4">>

NFe(leaf) == [kind |-> "infNFe", chave |-> leaf]
CTe(leaf) == [kind |-> "infCTe", chave |-> leaf]

Comp(name, v) == [xNome |-> Ns(name), vComp |-> Ns(v)]

\* value components of a vPrest with more than one row and more than six entries
FourComps ==
    <<Comp(<<"A">>, <<"1">>), Comp(<<"B">>, <<"2">>), Comp(<<"C">>, <<"3">>),
      Comp(<<"D">>, <<"4">>)>>
SevenComps ==
    FourComps \o <<Comp(<<"E">>, <<"5">>), Comp(<<"F">>, <<"6">>), Comp(<<"G">>, <<"7">>)>>

RefDoc ==
    [CTeOS |-> TRUE, protCTe |-> TRUE, infCte |-> TRUE, ide |-> TRUE,
     emit |-> TRUE, toma |-> TRUE, vPrest |-> TRUE, imp |-> TRUE,
     infCTeNorm |-> TRUE, infCarga |-> TRUE, infDoc |-> TRUE,
     infModal |-> TRUE, compl |-> TRUE, infCTeSupl |-> TRUE,
     infProt |-> "full", ICMSOutraUF |-> "absent", ICMS00 |-> "full",
     rodoOS |-> "veic", xObs |-> "text",
     Id |-> Ns(CTePrefix \o KeyA),
     tpAmb |-> Ns(<<"1">>), tpImp |-> Ns(<<"1">>),
     dhEmi |-> Ns(IsoEmi), dhRecbto |-> Ns(IsoRec),
     nProt |-> Ns(<<"1","3","5">>),
     nCT |-> Ns(<<"4","2">>),
     header_height |-> header_height,
     refs |-> <<NFe(Ns(KeyA))>>,
     comps |-> <<Comp(<<"F">>, <<"9",".","5","0">>)>>]

Dims == DOMAIN RefDoc

\* the values a place may take instead of the reference value
Alt(k) ==
    CASE k \in {"infProt", "ICMSOutraUF", "ICMS00"} -> {"absent", "empty", "full"} \ {RefDoc[k]}
      [] k = "rodoOS" -> {"absent", "noveic"}
      [] k = "xObs" -> {"absent", "notext"}
      [] k = "Id" -> {NoNode, Ns(KeyB), Ns(CTePrefix \o Slice(KeyB, 0, 20) \o CTePrefix \o Slice(KeyB, 20, 44))}
      [] k = "tpAmb" -> {NoNode, Ns(<<"2">>), Ns(<<" ", "1", "\n">>), Plain(<<"1">>)}
      [] k = "tpImp" -> {NoNode, Ns(<<"2">>)}
      [] k = "dhEmi" -> {NoNode, Ns(BadText), Ns(BadMonth), Ns(IsoDate)}
      [] k = "dhRecbto" -> {NoNode, Ns(BadText), Ns(IsoEmi)}
      [] k = "nProt" -> {NoNode}
      [] k = "nCT" -> {NoNode, NsNoText, Ns(<<" ", "7", "\n">>), Plain(<<"8", " ">>)}
      [] k = "header_height" -> {10}
      [] k = "refs" -> {<<>>,
                        <<NFe(Ns(KeyB))>>,
                        <<NFe(Ns(Slice(KeyA, 0, 30)))>>,
                        <<NFe(Ns(Slice(KeyA, 0, 25)))>>,
                        <<NFe(Ns(Slice(KeyA, 0, 10)))>>,
                        <<NFe(NoNode), CTe(Ns(KeyC))>>,
                        <<CTe(Ns(KeyB)), NFe(Ns(KeyA))>>,
                        <<NFe(Ns(KeyA)), CTe(Ns(KeyB)), NFe(Ns(KeyC))>>}
      [] k = "comps" -> {<<>>, FourComps, SevenComps}
      [] OTHER -> {FALSE}

\* the places in a fixed order, so that each document is built once
DimSeq ==
    <<"CTeOS", "protCTe", "infCte", "ide", "emit", "toma", "vPrest", "imp",
      "infCTeNorm", "infCarga", "infDoc", "infModal", "compl", "infCTeSupl",
      "infProt", "ICMSOutraUF", "ICMS00", "rodoOS", "xObs", "Id", "tpAmb", "tpImp",
      "dhEmi", "dhRecbto", "nProt", "nCT", "header_height", "refs", "comps">>

\* the values of a place in a fixed order
RECURSIVE AltList(_)
AltList(vs) ==
    IF vs = {} THEN <<>>
    ELSE LET v == CHOOSE x \in vs : TRUE IN <<v>> \o AltList(vs \ {v})

\* the choices of at most n changes among the places DimSeq[i], DimSeq[i+1],
\* ...: a change <<i, j>> gives place DimSeq[i] its j-th other value
RECURSIVE Deviations(_, _)
Deviations(i, n) ==
    IF n = 0 \/ i > Len(DimSeq) THEN {{}}
    ELSE Deviations(i + 1, n)
         \cup {S \cup {<<i, j>>} : j \in 1..Cardinality(Alt(DimSeq[i])), S \in Deviations(i + 1, n - 1)}

\* the reference document with the changes of S made
DocOf(S) ==
    [k \in Dims |->
        LET hit == {c \in S : DimSeq[c[1]] = k}
        IN  IF hit = {} THEN RefDoc[k] ELSE AltList(Alt(k))[(CHOOSE c \in hit : TRUE)[2]]]

\* the places where d differs from the reference document
Changed(d) == {k \in Dims : d[k] # RefDoc[k]}

(***************************************************************************)
(* Lookups of __init__ (lines 83-102): each is None when the node or one   *)
(* of its found ancestors is missing.                                      *)
(***************************************************************************)
ide(d) ==
    IF ~d.ide THEN None
    ELSE El([tpAmb |-> d.tpAmb, tpImp |-> d.tpImp, dhEmi |-> d.dhEmi,
             nCT |-> d.nCT, serie |-> Ns(<<"1">>), mod |-> Ns(<<"6","7">>),
             CFOP |-> Ns(<<"5","3","5","7">>), natOp |-> Ns(<<"F","R","E","T","E">>),
             tpCTe |-> Ns(<<"0">>), tpServ |-> Ns(<<"6">>), modal |-> Ns(<<"0","1">>),
             xMunIni |-> Ns(<<"S","P">>), UFIni |-> Ns(<<"S","P">>),
             xMunFim |-> Ns(<<"R","J">>), UFFim |-> Ns(<<"R","J">>)])

emit(d) ==
    IF ~d.emit THEN None
    ELSE El([xNome |-> Ns(<<"t","s","a">>), CNPJ |-> Ns(<<"1","2">>), IE |-> Ns(<<"3">>)])

toma_node(d) ==
    IF ~d.toma THEN None
    ELSE El([toma |-> NoNode, xNome |-> Ns(<<"A","B">>), CNPJ |-> Ns(<<"4","5">>),
             IE |-> NoNode, fone |-> Ns(<<"1","1">>)])

enderToma(d) == El([xLgr |-> Ns(<<"R">>), nro |-> Ns(<<"1">>), xCpl |-> NoNode,
                    xBairro |-> Ns(<<"B">>), xMun |-> Ns(<<"S","P">>), UF |-> Ns(<<"S","P">>),
                    CEP |-> Ns(<<"0","1","0","0","1">>), xPais |-> Ns(<<"B","R">>)])

enderEmit(d) == El([xLgr |-> Ns(<<"X">>), nro |-> Ns(<<"9">>), xBairro |-> Ns(<<"C">>),
                    CEP |-> Ns(<<"0","2","0","0","2">>), xMun |-> Ns(<<"S","P">>),
                    UF |-> Ns(<<"S","P">>), fone |-> Ns(<<"2","2">>)])

v_prest(d) ==
    IF ~d.vPrest THEN None
    ELSE El([vTPrest |-> Ns(<<"9",".","5","0">>), vRec |-> Ns(<<"9",".","5","0">>)])

inf_prot(d) ==
    IF d.infProt = "absent" THEN None
    ELSE IF d.infProt = "empty" THEN El([dhRecbto |-> NoNode, nProt |-> NoNode, cStat |-> NoNode])
    ELSE El([dhRecbto |-> d.dhRecbto, nProt |-> d.nProt, cStat |-> Ns(<<"1","0","0">>)])

TaxNode(state, k) ==
    IF state = "absent" THEN None
    ELSE IF state = "empty" THEN El([x \in {} |-> NoNode])
    ELSE El(k)

icms_outra_uf_node(d) ==
    TaxNode(d.ICMSOutraUF,
            [CST |-> Ns(<<"9","0">>), vBCOutraUF |-> Ns(<<"9",".","5","0">>),
             pICMSOutraUF |-> Ns(<<"1","2">>), vICMSOutraUF |-> Ns(<<"1",".","1","4">>)])

icms_node(d) ==
    TaxNode(d.ICMS00,
            [CST |-> Ns(<<"0","0">>), vBC |-> Ns(<<"9",".","5","0">>),
             pICMS |-> Ns(<<"1","2">>), vICMS |-> Ns(<<"1",".","1","4">>)])

rodo_os_node(d) ==
    IF d.rodoOS = "absent" THEN None
    ELSE El([NroRegEstadual |-> Ns(<<"7","7">>), veic |-> IF d.rodoOS = "veic" THEN NsNoText ELSE NoNode])

veic_node(d) ==
    IF d.rodoOS = "veic" THEN El([placa |-> Ns(<<"A","B","C","1","D","2","3">>), UF |-> Ns(<<"S","P">>)])
    ELSE None

inf_cte_supl(d) ==
    IF ~d.infCTeSupl THEN None ELSE El([qrCodCTe |-> Ns(<<"h","?","a","&","a","m","p",";","b">>)])

infServico(d) == El([xDescServ |-> Ns(<<"T","U","R">>)])
infQ(d) == El([qCarga |-> Ns(<<"2">>)])

(***************************************************************************)
(* Extraction (__init__, lines 104-246).                                   *)
(***************************************************************************)
NoErr == [type |-> "none", line |-> 0]
Raise(type, line) == [type |-> type, line |-> line]

\* x or y on strings
OrElse(a, b) == IF a # <<>> THEN a ELSE b

\* inf_cte.attrib.get("Id", '')
IdAttr(d) == IF d.Id.q = "none" THEN <<>> ELSE d.Id.text

key_cte(d) == ReplaceAll(IdAttr(d), CTePrefix, <<>>)

\* _get_usage_protocol: the receipt date is parsed without a handler
_get_usage_protocol(d) ==
    IF inf_prot(d).present
    THEN LET dh_recbto_iso == find_text(inf_prot(d), "dhRecbto")
             dh_recbto_obj == fromisoformat(dh_recbto_iso)
         IN  IF ~dh_recbto_obj.ok THEN [err |-> Raise("ValueError", 440), v |-> <<>>]
             ELSE [err |-> NoErr,
                   v |-> find_text(inf_prot(d), "nProt") \o <<"-">> \o strftime(dh_recbto_obj)]
    ELSE [err |-> NoErr, v |-> NA]

\* lines 122-127: the emission date is parsed inside try/except ValueError
dh_emi_formatted(d) ==
    LET dh_emi_iso == find_text(ide(d), "dhEmi")
        dh_emi_obj == fromisoformat(dh_emi_iso)
    IN  IF dh_emi_obj.ok THEN strftime(dh_emi_obj) ELSE dh_emi_iso

\* lines 158-162
comp_list(d) ==
    IF ~d.vPrest THEN <<>>
    ELSE [i \in 1..Len(d.comps) |->
            [name |-> find_text(El(d.comps[i]), "xNome"),
             value |-> format_number(find_text(El(d.comps[i]), "vComp"))]]

\* lines 164-191: the three outcomes of the tax-block selection
TaxOutraUF(n) ==
    [tax_branch |-> "ICMSOutraUF",
     icms_cst |-> find_text(n, "CST"),
     icms_vbc |-> format_number(find_text(n, "vBCOutraUF")),
     icms_p_icms |-> format_number(OrElse(find_text(n, "pFCPUFFim"), find_text(n, "pICMSOutraUF"))),
     icms_v_icms |-> format_number(OrElse(find_text(n, "vFCPUFFim"), find_text(n, "vICMSOutraUF"))),
     icms_pred_bc |-> Zero,
     icms_st |-> Zero]

TaxICMS00(n) ==
    [tax_branch |-> "ICMS00",
     icms_cst |-> find_text(n, "CST"),
     icms_vbc |-> format_number(find_text(n, "vBC")),
     icms_p_icms |-> format_number(find_text(n, "pICMS")),
     icms_v_icms |-> format_number(find_text(n, "vICMS")),
     icms_pred_bc |-> format_number(find_text(n, "pRedBC")),
     icms_st |-> format_number(find_text(n, "vICMSST"))]

TaxDefault ==
    [tax_branch |-> "default",
     icms_cst |-> <<>>, icms_vbc |-> Zero, icms_p_icms |-> Zero,
     icms_v_icms |-> Zero, icms_pred_bc |-> Zero, icms_st |-> Zero]

\* `if icms_outra_uf_node is not None` tests presence; `if icms_node:` tests
\* the truth value of the element
TaxBlock(d) ==
    IF icms_outra_uf_node(d).present THEN TaxOutraUF(icms_outra_uf_node(d))
    ELSE IF Truthy(icms_node(d)) THEN TaxICMS00(icms_node(d))
    ELSE TaxDefault

\* lines 214-222: every infNFe key, then every infCTe key; empty keys dropped
RECURSIVE ChavesOf(_, _)
ChavesOf(refs, kind) ==
    IF refs = <<>> THEN <<>>
    ELSE LET chave == find_text(El([chave |-> Head(refs).chave]), "chave") IN
         (IF Head(refs).kind = kind /\ chave # <<>> THEN <<chave>> ELSE <<>>)
         \o ChavesOf(Tail(refs), kind)

\* the keys taken in one pass over the children of infDoc
inf_doc_list_one_pass(d) ==
    IF ~d.infDoc THEN <<>>
    ELSE LET RECURSIVE Pass(_)
             Pass(refs) ==
                 IF refs = <<>> THEN <<>>
                 ELSE ChavesOf(<<Head(refs)>>, Head(refs).kind) \o Pass(Tail(refs))
         IN  Pass(d.refs)

inf_doc_list(d) ==
    IF ~d.infDoc THEN <<>>
    ELSE ChavesOf(d.refs, "infNFe") \o ChavesOf(d.refs, "infCTe")

\* lines 224-231 (xObs only: the documents of the model carry no ObsCont)
obs_list(d) ==
    IF d.compl /\ d.xObs = "text" THEN <<Strip(<<" ", "o", "b", "s">>)>> ELSE <<>>

\* the first statement of the extraction that raises, in program order
ExtractErr(d) ==
    IF ~d.CTeOS THEN Raise("AttributeError", 87)
    ELSE IF ~d.infCte THEN Raise("AttributeError", 88)
    ELSE IF ~d.infCTeNorm THEN Raise("AttributeError", 96)
    ELSE IF ~d.protCTe THEN Raise("AttributeError", 102)
    ELSE IF _get_usage_protocol(d).err # NoErr THEN _get_usage_protocol(d).err
    ELSE IF ~d.toma THEN Raise("AttributeError", 145)
    ELSE IF ~d.imp THEN Raise("AttributeError", 164)
    ELSE IF d.compl /\ d.xObs = "notext" THEN Raise("AttributeError", 227)
    ELSE IF ~d.infModal THEN Raise("AttributeError", 233)
    ELSE NoErr

\* the attributes of a new object: nothing is assigned yet
NoFields ==
    [a \in {"orientation", "receipt_pos", "nr_dacte", "serie_cte", "key_cte", "tp_cte",
            "tp_serv", "prot_uso", "dh_emi_formatted", "mod", "cfop", "nat_op",
            "x_mun_ini", "uf_ini", "x_mun_fim", "uf_fim", "toma_type_code", "toma_desc",
            "tomador_xnome", "tomador_cnpj_cpf", "tomador_ie", "tomador_xlgr",
            "tomador_nro", "tomador_xcpl", "tomador_xbairro", "tomador_xmun",
            "tomador_uf", "tomador_cep", "tomador_xpais", "tomador_fone",
            "v_tprest", "v_rec", "comp_list", "tax_branch", "icms_cst", "icms_vbc",
            "icms_p_icms", "icms_v_icms", "icms_pred_bc", "icms_st", "cst_desc",
            "x_desc_serv", "q_carga", "modal_code", "modal_desc", "inf_doc_list",
            "obs_list", "combined_obs", "nro_reg_estadual", "placa_veiculo",
            "uf_veiculo", "qr_code_data", "qr_code_data_unescaped"} |-> Unassigned]

\* the attributes once the extraction has run to line 246
Extract(d) ==
    LET tpImp == find_text(ide(d), "tpImp")
        tax == TaxBlock(d)
        qr == find_text(inf_cte_supl(d), "qrCodCTe")
    IN  [NoFields EXCEPT
         !["orientation"] = IF tpImp = <<"1">> THEN <<"P">> ELSE <<"L">>,
         !["receipt_pos"] = IF tpImp = <<"1">> THEN Unassigned ELSE <<"LEFT">>,
         !["nr_dacte"] = find_text(ide(d), "nCT"),
         !["serie_cte"] = find_text(ide(d), "serie"),
         !["key_cte"] = key_cte(d),
         !["tp_cte"] = TableGet("TP_CTE", find_text(ide(d), "tpCTe")),
         !["tp_serv"] = TableGet("TP_SERVICO", find_text(ide(d), "tpServ")),
         !["prot_uso"] = _get_usage_protocol(d).v,
         !["dh_emi_formatted"] = dh_emi_formatted(d),
         !["mod"] = find_text(ide(d), "mod"),
         !["cfop"] = find_text(ide(d), "CFOP"),
         !["nat_op"] = find_text(ide(d), "natOp"),
         !["x_mun_ini"] = find_text(ide(d), "xMunIni"),
         !["uf_ini"] = find_text(ide(d), "UFIni"),
         !["x_mun_fim"] = find_text(ide(d), "xMunFim"),
         !["uf_fim"] = find_text(ide(d), "UFFim"),
         !["toma_type_code"] = find_text(toma_node(d), "toma"),
         !["toma_desc"] = TableGet("TP_TOMADOR", find_text(toma_node(d), "toma")),
         !["tomador_xnome"] = find_text(toma_node(d), "xNome"),
         !["tomador_cnpj_cpf"] = format_cpf_cnpj(find_text(toma_node(d), "CNPJ")),
         !["tomador_ie"] = find_text(toma_node(d), "IE"),
         !["tomador_xlgr"] = find_text(enderToma(d), "xLgr"),
         !["tomador_nro"] = find_text(enderToma(d), "nro"),
         !["tomador_xcpl"] = find_text(enderToma(d), "xCpl"),
         !["tomador_xbairro"] = find_text(enderToma(d), "xBairro"),
         !["tomador_xmun"] = find_text(enderToma(d), "xMun"),
         !["tomador_uf"] = find_text(enderToma(d), "UF"),
         !["tomador_cep"] = format_cep(find_text(enderToma(d), "CEP")),
         !["tomador_xpais"] = find_text(enderToma(d), "xPais"),
         !["tomador_fone"] = format_phone(find_text(toma_node(d), "fone")),
         !["v_tprest"] = format_number(find_text(v_prest(d), "vTPrest")),
         !["v_rec"] = format_number(find_text(v_prest(d), "vRec")),
         !["comp_list"] = comp_list(d),
         !["tax_branch"] = <<tax.tax_branch>>,
         !["icms_cst"] = tax.icms_cst,
         !["icms_vbc"] = tax.icms_vbc,
         !["icms_p_icms"] = tax.icms_p_icms,
         !["icms_v_icms"] = tax.icms_v_icms,
         !["icms_pred_bc"] = tax.icms_pred_bc,
         !["icms_st"] = tax.icms_st,
         !["cst_desc"] = TableGet("TP_ICMS", tax.icms_cst),
         !["x_desc_serv"] = find_text(infServico(d), "xDescServ"),
         !["q_carga"] = format_number(find_text(infQ(d), "qCarga")),
         !["modal_code"] = find_text(ide(d), "modal"),
         !["modal_desc"] = TableGet("TP_MODAL", find_text(ide(d), "modal")),
         !["inf_doc_list"] = inf_doc_list(d),
         !["obs_list"] = obs_list(d),
         !["combined_obs"] = JoinSp(obs_list(d)),
         !["nro_reg_estadual"] =
             IF rodo_os_node(d).present THEN find_text(rodo_os_node(d), "NroRegEstadual") ELSE <<>>,
         !["placa_veiculo"] =
             IF rodo_os_node(d).present
             THEN (IF veic_node(d).present THEN find_text(veic_node(d), "placa") ELSE Unassigned)
             ELSE <<>>,
         !["uf_veiculo"] =
             IF rodo_os_node(d).present
             THEN (IF veic_node(d).present THEN find_text(veic_node(d), "UF") ELSE Unassigned)
             ELSE <<>>,
         !["qr_code_data"] = qr,
         !["qr_code_data_unescaped"] = ReplaceAll(qr, <<"&", "a", "m", "p", ";">>, <<"&">>)]

(***************************************************************************)
(* Drawing.  A draw operation records the phase that issued it, the        *)
(* canvas call, its vertical position (at) and height (h) in mm units      *)
(* from the top margin, its column where the phase lays out a grid, a      *)
(* label naming what is drawn and the text drawn.  Font and position       *)
(* settings and ruling lines depend on no input and are not recorded; the  *)
(* fixed captions of a box are recorded once, with its title.              *)
(***************************************************************************)
Rect(phase, at, h) ==
    [phase |-> phase, op |-> "rect", at |-> at, h |-> h, col |-> 0, label |-> "box", text |-> <<>>]

Cell(phase, at, label, text) ==
    [phase |-> phase, op |-> "cell", at |-> at, h |-> 4, col |-> 0, label |-> label, text |-> text]

CellAt(phase, at, col, label, text) ==
    [phase |-> phase, op |-> "cell", at |-> at, h |-> 4, col |-> col, label |-> label, text |-> text]

Done(o, ny) == [ops |-> o, y |-> ny, err |-> NoErr]
Failed(o, oy, e) == [ops |-> o, y |-> oy, err |-> e]

\* _draw_receipt_section
_draw_receipt_section(f, d, y0) ==
    LET y_pos == 0
        box_h == receipt_height
    IN  Done(<<Rect("receipt", y_pos, box_h),
               Cell("receipt", y_pos + 1, "receipt_text", <<>>),
               Cell("receipt", y_pos + 1, "nr_dacte", f.nr_dacte),
               Cell("receipt", y_pos + 1, "serie_cte", f.serie_cte),
               Cell("receipt", y_pos + 5, "NRO. DOCUMENTO", f.nr_dacte),
               Cell("receipt", y_pos + 9, "SERIE", f.serie_cte)>>,
             y_pos + box_h + 2)

\* [key[i:i+4] for i in range(0, len(key), 4)]
RECURSIVE Chunks4(_)
Chunks4(k) == IF k = <<>> THEN <<>> ELSE <<Slice(k, 0, 4)>> \o Chunks4(Slice(k, 4, Len(k)))

formatted_key(k) == JoinSp(Chunks4(k))

\* _draw_header_section: self.emit.find(...) at line 344 needs the emitter
_draw_header_section(f, d, y0) ==
    LET y_pos == y0
        y_pos_key_qr == y_pos + d.header_height - 35
        before == <<Rect("header", y_pos, 33),
                    Cell("header", y_pos + 6, "emit_xNome", App("upper", find_text(emit(d), "xNome")))>>
    IN  IF ~emit(d).present THEN Failed(before, y0, Raise("AttributeError", 344))
        ELSE Done(before \o
             <<Cell("header", y_pos + 12, "emit_address",
                    find_text(enderEmit(d), "xLgr") \o <<". ">> \o find_text(enderEmit(d), "nro")),
               Cell("header", y_pos + 16, "emit_city_state_zip",
                    find_text(enderEmit(d), "xBairro") \o <<"-">>
                    \o format_cep(find_text(enderEmit(d), "CEP")) \o <<"-">>
                    \o find_text(enderEmit(d), "xMun") \o <<"-">> \o find_text(enderEmit(d), "UF")),
               Cell("header", y_pos + 20, "emit_phone_fax", format_phone(find_text(enderEmit(d), "fone"))),
               Cell("header", y_pos + 24, "emit_cnpj_ie",
                    format_cpf_cnpj(find_text(emit(d), "CNPJ")) \o <<" ">> \o find_text(emit(d), "IE")),
               Rect("header", y_pos, 33),
               Cell("header", y_pos + 4, "DACTE OS", <<>>),
               Cell("header", y_pos + 17, "mod", f.mod),
               Cell("header", y_pos + 17, "serie_cte", f.serie_cte),
               Cell("header", y_pos + 17, "nr_dacte", f.nr_dacte),
               Cell("header", y_pos + 17, "dh_emi_formatted", f.dh_emi_formatted),
               Cell("header", y_pos + 22, "tp_cte", f.tp_cte),
               Cell("header", y_pos + 26, "tp_serv", f.tp_serv),
               Rect("header", y_pos_key_qr, 35),
               Cell("header", y_pos_key_qr + 6, "formatted_key", formatted_key(f.key_cte)),
               Cell("header", y_pos_key_qr + 24, "prot_uso", f.prot_uso),
               [phase |-> "header", op |-> "qr_code", at |-> y_pos_key_qr + 5, h |-> 38, col |-> 0,
                label |-> "qr_code_data_unescaped", text |-> f.qr_code_data_unescaped]>>,
             y_pos_key_qr + 35 + 2)

\* the route block advancing the cursor past its first row only
_draw_percurso_and_cfop_one_row(f, d, y0) ==
    LET y_pos == y0 IN
    Done(<<Rect("percurso", y_pos, 7),
           Cell("percurso", y_pos + 5, "cfop-nat_op", f.cfop \o <<"-">> \o f.nat_op),
           Cell("percurso", y_pos + 5, "inicio", f.x_mun_ini \o <<"-">> \o f.uf_ini),
           Rect("percurso", y_pos + 7, 7),
           Cell("percurso", y_pos + 7 + 5, "termino", f.x_mun_fim \o <<"-">> \o f.uf_fim)>>,
         y_pos + 7 + 2)

\* _draw_percurso_and_cfop
_draw_percurso_and_cfop(f, d, y0) ==
    LET y_pos == y0 IN
    Done(<<Rect("percurso", y_pos, 7),
           Cell("percurso", y_pos + 5, "cfop-nat_op", f.cfop \o <<"-">> \o f.nat_op),
           Cell("percurso", y_pos + 5, "inicio", f.x_mun_ini \o <<"-">> \o f.uf_ini),
           Rect("percurso", y_pos + 7, 7),
           Cell("percurso", y_pos + 7 + 5, "termino", f.x_mun_fim \o <<"-">> \o f.uf_fim)>>,
         y_pos + 7 + 7 + 2)

\* _draw_tomador_section
_draw_tomador_section(f, d, y0) ==
    LET y_pos == y0
        address_line_1 ==
            f.tomador_xlgr \o <<", ">> \o f.tomador_nro
            \o (IF f.tomador_xcpl # <<>> THEN <<"-">> \o f.tomador_xcpl ELSE <<>>)
            \o <<"-">> \o f.tomador_xbairro
    IN  Done(<<Rect("tomador", y_pos, tomador_height),
               Cell("tomador", y_pos + 2, "tomador_xnome", f.tomador_xnome),
               Cell("tomador", y_pos + 6, "address_line_1", address_line_1),
               Cell("tomador", y_pos + 10, "tomador_cnpj_cpf", f.tomador_cnpj_cpf),
               Cell("tomador", y_pos + 14, "tomador_ie", f.tomador_ie),
               Cell("tomador", y_pos + 18, "address_line_2",
                    f.tomador_xmun \o <<" ">> \o f.tomador_uf \o <<" ">> \o f.tomador_cep),
               Cell("tomador", y_pos + 22, "address_line_3",
                    f.tomador_xpais \o <<" ">> \o f.tomador_fone)>>,
             y_pos + tomador_height + 2)

\* the components laid out four to a row
RECURSIVE CompCells_four_to_a_row(_, _, _)
CompCells_four_to_a_row(comps, i, comp_y_start) ==
    IF i >= Len(comps) \/ i >= 6 THEN <<>>
    ELSE LET col_idx == i % 4
             row_idx == i \div 4
             current_comp_y == comp_y_start + row_idx * 4
         IN  <<CellAt("service", current_comp_y, col_idx, "comp_name", comps[i + 1].name),
               CellAt("service", current_comp_y, col_idx, "comp_value", comps[i + 1].value)>>
             \o CompCells_four_to_a_row(comps, i + 1, comp_y_start)

\* the loop of lines 542-556: at most six components, three to a row
RECURSIVE CompCells(_, _, _)
CompCells(comps, i, comp_y_start) ==
    IF i >= Len(comps) \/ i >= 6 THEN <<>>
    ELSE LET col_idx == i % 3
             row_idx == i \div 3
             current_comp_y == comp_y_start + row_idx * 4
         IN  <<CellAt("service", current_comp_y, col_idx, "comp_name", comps[i + 1].name),
               CellAt("service", current_comp_y, col_idx, "comp_value", comps[i + 1].value)>>
             \o CompCells(comps, i + 1, comp_y_start)

\* _draw_service_info_and_values
_draw_service_info_and_values(f, d, y0) ==
    LET y1 == y0
        y2 == y1 + 16
        y3 == y2 + 20
    IN  Done(<<Rect("service", y1, 14),
               Cell("service", y1 + 6, "x_desc_serv", f.x_desc_serv),
               Cell("service", y1 + 10, "q_carga-modal_desc", f.q_carga \o <<" ">> \o f.modal_desc),
               Rect("service", y2, 18)>>
             \o CompCells(f.comp_list, 0, y2 + 6)
             \o <<CellAt("service", y2 + 6, 3, "v_tprest", App("float", ReplaceChar(f.v_tprest, ",", "."))),
                  CellAt("service", y2 + 14, 3, "v_rec", App("float", ReplaceChar(f.v_rec, ",", "."))),
                  Rect("service", y3, 10),
                  CellAt("service", y3 + 8, 0, "icms_cst-cst_desc", f.icms_cst \o <<"-">> \o f.cst_desc),
                  CellAt("service", y3 + 8, 1, "icms_vbc", f.icms_vbc),
                  CellAt("service", y3 + 8, 2, "icms_p_icms", f.icms_p_icms),
                  CellAt("service", y3 + 8, 3, "icms_v_icms", f.icms_v_icms),
                  CellAt("service", y3 + 8, 4, "icms_pred_bc", f.icms_pred_bc),
                  CellAt("service", y3 + 8, 5, "icms_st", f.icms_st)>>,
             y3 + 10 + 2)

\* lines 663-665
serie_doc(chave) == Slice(chave, 22, 25)

\* the number slice taken one position early
nro_doc_shifted(chave) == Slice(chave, 24, 33)

nro_doc(chave) == Slice(chave, 25, 34)
formatted_nro_doc(n) == ReplaceChar(FormatGrouped(n, 11), ",", ".")

\* the loop of lines 653-667: int(nro_doc) raises on a slice that is no number
RECURSIVE DocRows(_, _, _)
DocRows(list, i, doc_line_y_start) ==
    IF i >= Len(list) THEN [ops |-> <<>>, err |-> NoErr]
    ELSE LET chave == list[i + 1]
             current_doc_y == doc_line_y_start + i * 4
             head == <<CellAt("documents", current_doc_y, 0, "tipo_doc", <<"N", "F", "E">>),
                       CellAt("documents", current_doc_y, 1, "chave", chave)>>
         IN  IF ~IntParses(nro_doc(chave))
             THEN [ops |-> head, err |-> Raise("ValueError", 665)]
             ELSE LET rest == DocRows(list, i + 1, doc_line_y_start) IN
                  [ops |-> head
                           \o <<CellAt("documents", current_doc_y, 2, "serie/nro",
                                       serie_doc(chave) \o <<"/">>
                                       \o formatted_nro_doc(IntOf(nro_doc(chave))))>>
                           \o rest.ops,
                   err |-> rest.err]

\* the observations box placed below the rows instead of below the box
y_pos_obs_below_rows(y_pos, list) == y_pos + documents_height + 2 + 4 * Len(list)

\* line 669
y_pos_obs(y_pos, list) == y_pos + documents_height + 2

\* _draw_documents_and_observations
_draw_documents_and_observations(f, d, y0) ==
    LET y_pos == y0
        before == <<Rect("documents", y_pos, documents_height),
                    Cell("documents", y_pos + 2, "DOCUMENTOS ORIGINARIOS", <<>>)>>
        rows == DocRows(f.inf_doc_list, 0, y_pos + 8)
        y_obs == y_pos_obs(y_pos, f.inf_doc_list)
        y_pos_tributos_info == y_obs + 12
    IN  IF rows.err # NoErr THEN Failed(before \o rows.ops, y0, rows.err)
        ELSE Done(before \o rows.ops \o
                  <<Rect("documents", y_obs, 10),
                    [phase |-> "documents", op |-> "multi_cell", at |-> y_obs + 5, h |-> 3,
                     col |-> 0, label |-> "combined_obs", text |-> f.combined_obs],
                    Cell("documents", y_pos_tributos_info, "tributos", <<>>)>>,
                  y_pos_tributos_info + 4 + 2)

\* _draw_modal_specific_data_rodo_os: reading an attribute that was never
\* assigned raises AttributeError
_draw_modal_specific_data_rodo_os(f, d, y0) ==
    LET y_pos == y0
        y_pos_footer == y_pos + modal_height + 2
        before == <<Rect("modal", y_pos, modal_height),
                    Cell("modal", y_pos + 2, "DADOS ESPECIFICOS DO MODAL RODOVIARIO", <<>>)>>
    IN  IF f.placa_veiculo = Unassigned THEN Failed(before, y0, Raise("AttributeError", 700))
        ELSE Done(before \o
                  <<Cell("modal", y_pos + 6, "placa_veiculo", f.placa_veiculo),
                    Cell("modal", y_pos + 10, "uf_veiculo", f.uf_veiculo),
                    Cell("modal", y_pos + 14, "nro_reg_estadual", f.nro_reg_estadual),
                    Cell("modal", y_pos + 6, "TERMO DE AUTORIZACAO DE FRETAMENTO", <<>>),
                    Rect("modal", y_pos_footer, footer_height),
                    Cell("modal", y_pos_footer + 3, "USO EXCLUSIVO DO EMISSOR DO CT-E", <<>>)>>,
                  y_pos_footer + footer_height + 2)

\* the readings datetime.now() may give
Clock == {fromisoformat(IsoRec), fromisoformat(IsoEmi)}

\* the footer with the clock reading printed in its last caption as well
_draw_footer_declaration_two_stamps(f, d, y0, now) ==
    LET y_pos == y0 IN
    Done(<<Cell("footer", y_pos, "TERMINO DA PRESTACAO-DATA/HORA", <<>>),
           Cell("footer", y_pos, "INICIO DA PRESTACAO-DATA/HORA", <<>>),
           Cell("footer", y_pos + 4, "Impresso em", strftime(now)),
           Cell("footer", y_pos + 4, "ASSINATURA/CARIMBO", strftime(now))>>,
         y_pos + 4)

\* _draw_footer_declaration: the phase has no statement that sets the
\* cursor; self.y is the canvas position itself (self.c is self), so it is
\* left where the last set_xy put it, at y_pos + 4.  now is the reading of
\* datetime.now() at line 734.
_draw_footer_declaration(f, d, y0, now) ==
    LET y_pos == y0 IN
    Done(<<Cell("footer", y_pos, "TERMINO DA PRESTACAO-DATA/HORA", <<>>),
           Cell("footer", y_pos, "INICIO DA PRESTACAO-DATA/HORA", <<>>),
           Cell("footer", y_pos + 4, "Impresso em", strftime(now)),
           Cell("footer", y_pos + 4, "ASSINATURA/CARIMBO", <<>>)>>,
         y_pos + 4)

\* the environment flag compared with the code of the test environment
is_production_environment_wrong_code(d) == find_text(ide(d), "tpAmb") = <<"2">>

\* lines 763-766
is_production_environment(d) == find_text(ide(d), "tpAmb") = <<"1">>
is_protocol_available(d) == Truthy(inf_prot(d))

DrawsWatermark(d) == ~(is_production_environment(d) /\ is_protocol_available(d))

Watermark ==
    [phase |-> "watermark", op |-> "text", at |-> 0, h |-> 15, col |-> 0,
     label |-> "watermark", text |-> <<"SEM VALOR FISCAL">>]

\* _draw_void_watermark_conditional
_draw_void_watermark_conditional(f, d, y0) ==
    Done(IF DrawsWatermark(d) THEN <<Watermark>> ELSE <<>>, y0)

(***************************************************************************)
(* The constructor as a state machine.  pc names the statement of          *)
(* __init__ that runs next; "raised" is an exception leaving __init__,     *)
(* "done" its normal return.                                               *)
(***************************************************************************)
Init ==
    /\ \E S \in Deviations(1, MaxDev) : doc = DocOf(S)
    /\ pc = "init"
    /\ self = NoFields
    /\ y = 0
    /\ ops = <<>>
    /\ err = NoErr
    /\ page = FALSE

\* lines 69-246: parse, look the nodes up, extract every field
Construct ==
    /\ pc = "init"
    /\ IF ExtractErr(doc) # NoErr
       THEN /\ pc' = "raised"
            /\ err' = ExtractErr(doc)
            /\ self' = self
       ELSE /\ pc' = "add_page"
            /\ err' = err
            /\ self' = Extract(doc)
    /\ UNCHANGED <<doc, y, ops, page>>

\* lines 248-249
AddPage ==
    /\ pc = "add_page"
    /\ page' = TRUE
    /\ ops' = Append(ops, [phase |-> "page", op |-> "add_page", at |-> 0, h |-> 0, col |-> 0,
                           label |-> "orientation", text |-> self.orientation])
    /\ y' = 0
    /\ pc' = "receipt"
    /\ UNCHANGED <<doc, self, err>>

\* a drawing phase that uses up the list of referenced documents
Phase_consumes_list(from, to, r) ==
    /\ pc = from
    /\ ops' = ops \o r.ops
    /\ IF r.err = NoErr
       THEN pc' = to /\ y' = r.y /\ err' = err
       ELSE pc' = "raised" /\ y' = y /\ err' = r.err
    /\ self' = [self EXCEPT !["inf_doc_list"] = <<>>]
    /\ UNCHANGED <<doc, page>>

\* one drawing phase: its operations reach the page up to the statement
\* that raises, the cursor is set by the last statement of the phase
Phase(from, to, r) ==
    /\ pc = from
    /\ ops' = ops \o r.ops
    /\ IF r.err = NoErr
       THEN pc' = to /\ y' = r.y /\ err' = err
       ELSE pc' = "raised" /\ y' = y /\ err' = r.err
    /\ UNCHANGED <<doc, self, page>>

DrawReceipt == Phase("receipt", "header", _draw_receipt_section(self, doc, y))
DrawHeader == Phase("header", "percurso", _draw_header_section(self, doc, y))
DrawPercurso == Phase("percurso", "tomador", _draw_percurso_and_cfop(self, doc, y))
DrawTomador == Phase("tomador", "service", _draw_tomador_section(self, doc, y))
DrawService == Phase("service", "documents", _draw_service_info_and_values(self, doc, y))
DrawDocuments == Phase("documents", "modal", _draw_documents_and_observations(self, doc, y))
DrawModal == Phase("modal", "footer", _draw_modal_specific_data_rodo_os(self, doc, y))
DrawFooter == \E now \in Clock : Phase("footer", "watermark", _draw_footer_declaration(self, doc, y, now))
DrawWatermark == Phase("watermark", "done", _draw_void_watermark_conditional(self, doc, y))

Next ==
    \/ Construct
    \/ AddPage
    \/ DrawReceipt
    \/ DrawHeader
    \/ DrawPercurso
    \/ DrawTomador
    \/ DrawService
    \/ DrawDocuments
    \/ DrawModal
    \/ DrawFooter
    \/ DrawWatermark

Spec == Init /\ [][Next]_vars

(***************************************************************************)
(* Properties.  The documents a property speaks of are described by what   *)
(* the input holds, not by what the extraction made of it.                 *)
(***************************************************************************)
Range(s) == {s[i] : i \in DOMAIN s}

Constructed == pc \notin {"init", "raised"}

\* the input says production: the tpAmb text, blanks aside, is "1"
ProductionDoc(d) == d.ide /\ d.tpAmb.q # "none" /\ ~d.tpAmb.nt /\ Strip(d.tpAmb.text) = <<"1">>

\* the input has no authorization-protocol block
LacksProtocol(d) == ~d.protCTe \/ d.infProt = "absent"

WatermarkDrawn == \E i \in 1..Len(ops) : ops[i].phase = "watermark"

\* C1: a document without the authorization-protocol block, and a document
\* that is not a production one, is rendered to the end and carries the
\* "SEM VALOR FISCAL" watermark.
C1_WatermarkWhenUnauthorised ==
    (/\ Changed(doc) \subseteq {"protCTe", "infProt", "tpAmb"}
     /\ doc.infProt # "empty"
     /\ LacksProtocol(doc) \/ ~ProductionDoc(doc))
    => /\ pc # "raised"
       /\ pc = "done" => WatermarkDrawn

\* C2: a production document that has its infProt block gets no watermark:
\* no "SEM VALOR FISCAL" text is ever on its page.
C2_NoWatermarkWhenAuthorised ==
    (ProductionDoc(doc) /\ ~LacksProtocol(doc)) => ~WatermarkDrawn

C2_Witness ==
    /\ pc = "done"
    /\ ProductionDoc(doc) /\ ~LacksProtocol(doc)
    /\ doc.tpAmb # RefDoc.tpAmb
    /\ ~WatermarkDrawn

OptionalSubtrees == {"imp", "infModal", "infCTeSupl", "compl", "protCTe", "infProt"}

\* C3: when only optional subtrees are absent (tax block, modal block,
\* supplementary info, observations, protocol block) the constructor does
\* not raise, and the fields of an absent subtree hold '' or the default.
C3_OptionalSubtreesTolerated ==
    (/\ Changed(doc) # {}
     /\ Changed(doc) \subseteq OptionalSubtrees
     /\ doc.infProt # "empty")
    => /\ pc # "raised"
       /\ Constructed =>
            /\ ~doc.imp => self.icms_cst = <<>> /\ self.icms_vbc = Zero
            /\ ~doc.infModal => self.placa_veiculo = <<>>
            /\ ~doc.infCTeSupl => self.qr_code_data = <<>>
            /\ ~doc.compl => self.combined_obs = <<>>
            /\ LacksProtocol(doc) => self.prot_uso = NA

\* C4: an error of the constructor is raised before the page exists and
\* before anything is drawn.
C4_NoPartialRendering ==
    pc = "raised" => ~page /\ ops = <<>>

TimestampBroken(leaf) == leaf.q = "none" \/ ~fromisoformat(Strip(leaf.text)).ok

\* C5: a dhEmi or dhRecbto that is no ISO 8601 timestamp does not stop the
\* constructor, and the raw text is shown in its place.
C5_UnparseableTimestampNotFatal ==
    (/\ Changed(doc) # {}
     /\ Changed(doc) \subseteq {"dhEmi", "dhRecbto"}
     /\ \A k \in Changed(doc) : TimestampBroken(doc[k]))
    => /\ pc # "raised"
       /\ Constructed =>
            /\ TimestampBroken(doc.dhEmi) => self.dh_emi_formatted = Strip(doc.dhEmi.text)
            /\ TimestampBroken(doc.dhRecbto) =>
                 self.prot_uso = Strip(doc.nProt.text) \o <<"-">> \o Strip(doc.dhRecbto.text)

HasShortKey(d) == \E i \in 1..Len(d.refs) : d.refs[i].chave.q # "none" /\ Len(d.refs[i].chave.text) < 44

\* C6: a reference key shorter than 44 characters, also one shorter than 26
\* or 23, does not make the documents phase fail: rendering goes on to the end.
C6_ShortKeyDegradesSilently ==
    (Changed(doc) = {"refs"} /\ HasShortKey(doc)) => pc # "raised"

IsSerieNro(o) == o.label = "serie/nro"

AfterDocuments == pc \in {"modal", "footer", "watermark", "done"}

Is44Digits(k) == Len(k) = 44 /\ AllDigits(k)

\* the row texts of the documents box agree with want, key by key
RowsShow(want(_)) ==
    LET rows == SelectSeq(ops, IsSerieNro) IN
    /\ Len(rows) = Len(self.inf_doc_list)
    /\ \A i \in 1..Len(rows) :
         Is44Digits(self.inf_doc_list[i]) => rows[i].text = want(self.inf_doc_list[i])

\* the number as the claim words it: eleven digits, grouped by thousands
ElevenDigits(k) ==
    Slice(k, 22, 25) \o <<"/">> \o Group3(ZFill(Slice(k, 25, 34), 11), ".")

\* the number as nine digits in three groups, eleven characters in all
NineDigits(k) ==
    Slice(k, 22, 25) \o <<"/">>
    \o Slice(k, 25, 28) \o <<".">> \o Slice(k, 28, 31) \o <<".">> \o Slice(k, 31, 34)

PrefixStripped(id) == IF StartsWith(id, CTePrefix) THEN Slice(id, 3, Len(id)) ELSE id

IsFormattedKey(o) == o.label = "formatted_key"

\* C8: the access key is the Id attribute with the prefix "CTe" stripped and
\* nothing else removed; a 44-character key is shown as 11 groups of 4
\* joined by single spaces, which concatenate back to the key.
C8_AccessKey ==
    Constructed =>
        /\ self.key_cte = PrefixStripped(IdAttr(doc))
        /\ \A i \in 1..Len(ops) :
             (IsFormattedKey(ops[i]) /\ Len(self.key_cte) = 44) =>
                 /\ Len(ops[i].text) = 54
                 /\ \A j \in 1..54 : (ops[i].text[j] = " ") = (j % 5 = 0)
                 /\ ReplaceAll(ops[i].text, <<" ">>, <<>>) = self.key_cte

\* the receipt date of the reference document as the page shows it
RecFormatted == <<"2","9","/","0","2","/","2","0","2","4"," ","2","3",":","5","9",":","0","7">>

\* C9: the usage protocol is "<nProt>-<DD/MM/YYYY HH:MM:SS>" when the
\* protocol subtree is there and "N/A" when protCTe or infProt is missing,
\* and in that case the constructor does not raise.
C9_UsageProtocol ==
    (/\ Changed(doc) \subseteq {"protCTe", "infProt", "nProt"}
     /\ doc.infProt # "empty")
    => /\ pc # "raised"
       /\ Constructed =>
            self.prot_uso = IF LacksProtocol(doc) THEN NA
                            ELSE (IF doc.nProt.q = "none" THEN <<>> ELSE doc.nProt.text)
                                 \o <<"-">> \o RecFormatted

\* the outcome the selection rule names for a document
TaxOutcome(d) ==
    IF d.ICMSOutraUF # "absent" THEN "ICMSOutraUF"
    ELSE IF d.ICMS00 # "absent" THEN "ICMS00"
    ELSE "default"

\* C10: ICMSOutraUF present selects the interstate fields; otherwise ICMS00
\* present, whatever it holds, selects the standard fields; with neither
\* the CST is empty and every amount is "0.00".
C10_TaxBlockSelection ==
    (Constructed /\ Changed(doc) \subseteq {"ICMSOutraUF", "ICMS00"})
    => /\ self.tax_branch = <<TaxOutcome(doc)>>
       /\ TaxOutcome(doc) = "default" =>
            /\ self.icms_cst = <<>>
            /\ \A a \in {"icms_vbc", "icms_p_icms", "icms_v_icms", "icms_pred_bc", "icms_st"} :
                 self[a] = Zero

\* the referenced-document nodes of the input that carry a key with text
HasKey(r) == r.chave.q # "none" /\ ~r.chave.nt /\ Strip(r.chave.text) # <<>>
IsInfNFe(r) == r.kind = "infNFe"
IsInfCTe(r) == r.kind = "infCTe"
KeyedRefs(d) == IF d.infDoc THEN SelectSeq(d.refs, HasKey) ELSE <<>>
KeysOf(rs) == [i \in 1..Len(rs) |-> Strip(rs[i].chave.text)]

\* C11 as stated: the referenced-documents list holds the non-empty key of
\* every infNFe and infCTe node under infDoc, once each, in the order the
\* nodes have in the document, also when the two kinds are interleaved.
C11_Original ==
    Constructed => self.inf_doc_list = KeysOf(KeyedRefs(doc))

\* C11: the referenced-documents list holds the non-empty key of every
\* infNFe and infCTe node under infDoc, once each: the infNFe keys in
\* document order first, the infCTe keys in document order after them.
C11_KeysGroupedByKind ==
    Constructed =>
        self.inf_doc_list = KeysOf(SelectSeq(KeyedRefs(doc), IsInfNFe))
                            \o KeysOf(SelectSeq(KeyedRefs(doc), IsInfCTe))

C11_Witness ==
    /\ Constructed
    /\ Len(KeyedRefs(doc)) = 3
    /\ IsInfNFe(doc.refs[1]) /\ IsInfCTe(doc.refs[2]) /\ IsInfNFe(doc.refs[3])
    /\ self.inf_doc_list = <<KeyA, KeyC, KeyB>>

\* the statements of lines 248-262 in program order, between the extraction
\* and the return
PhaseOrder ==
    <<"init", "add_page", "receipt", "header", "percurso", "tomador", "service",
      "documents", "modal", "footer", "watermark", "done">>

PhaseIndex(p) == CHOOSE i \in 1..Len(PhaseOrder) : PhaseOrder[i] = p

\* the phase that issues the operations of a step taken at p
IssuedBy(p) == IF p = "add_page" THEN "page" ELSE p

\* the phases that draw whatever the document holds
AlwaysDraws == {"page", "receipt", "header", "percurso", "tomador", "service",
                "documents", "modal", "footer"}

\* C12: rendering follows one forward-only path for every input.  Every
\* step runs the phase that comes next in the order page creation, receipt
\* stub, header, route/CFOP, payer, service/value/tax,
\* documents/observations, modal data, footer, watermark; the operations
\* of a step are those of the phase it runs and are added after all earlier
\* ones; nothing is drawn before the page is created; once the page is
\* created no phase is left out, so every phase runs, once.
C12_ForwardOnlyPath ==
    [][/\ pc \in Range(PhaseOrder) \ {"done"}
       /\ pc' \in {PhaseOrder[PhaseIndex(pc) + 1], "raised"}
       /\ page => pc' # "raised"
       /\ Len(ops') >= Len(ops)
       /\ SubSeq(ops', 1, Len(ops)) = ops
       /\ \A i \in (Len(ops) + 1)..Len(ops') : ops'[i].phase = IssuedBy(pc)
       /\ pc = "init" => ops' = <<>>
       /\ ops' # <<>> => page' /\ ops'[1].op = "add_page"
       /\ pc' = "done" =>
              \A p \in AlwaysDraws : \E i \in 1..Len(ops') : ops'[i].phase = p]_vars

\* the phases that draw at the cursor, and all drawing phases
CursorPhases == {"receipt", "header", "percurso", "tomador", "service", "documents", "modal"}
DrawingPhases == CursorPhases \cup {"footer", "watermark"}

\* the height of what a phase draws, from its first box to the lower edge
\* of its last box or caption row, inner gaps included
DrawnHeight(p, d) ==
    CASE p = "receipt" -> receipt_height
      [] p = "header" -> d.header_height
      [] p = "percurso" -> 7 + 7
      [] p = "tomador" -> tomador_height
      [] p = "service" -> 14 + 2 + 18 + 2 + 10
      [] p = "documents" -> documents_height + 2 + 10 + 2 + 4
      [] p = "modal" -> modal_height + 2 + footer_height
      [] p = "footer" -> 4 + 4
      [] p = "watermark" -> IF DrawsWatermark(d) THEN 15 ELSE 0

\* the fixed margin below a phase
Margin == 2

\* a step in which the drawing phase at pc returns
Returns(p) == pc = p /\ pc' # "raised"

\* the operations the step adds start at the cursor the phase received
StartsAtCursor == Len(ops') > Len(ops) => ops'[Len(ops) + 1].at = y

\* nothing the step adds lies above the cursor the phase received
NothingAboveCursor == \A i \in (Len(ops) + 1)..Len(ops') : ops'[i].at >= y

DocumentsOps == SelectSeq(ops, LAMBDA o : o.phase = "documents")
RowLabels == {"tipo_doc", "chave", "serie/nro"}
RowOps == SelectSeq(DocumentsOps, LAMBDA o : o.label \in RowLabels)

\* the cursor the documents phase receives: nothing above it depends on the list
CursorAtDocuments(d) ==
    (receipt_height + Margin) + (d.header_height + Margin) + (7 + 7 + Margin)
    + (tomador_height + Margin) + (14 + 2 + 18 + 2 + 10 + Margin)

\* C14: the documents section has a fixed height whatever the list holds.
\* When the documents/observations phase has returned, its box has the
\* layout height and carries its title, there are three cells per listed
\* key and none for an empty list, and the cursor stands at the same
\* distance below the start of the phase for every list length.
C14_DocumentsHeightFixed ==
    pc = "modal" =>
        /\ DocumentsOps[1] = Rect("documents", CursorAtDocuments(doc), documents_height)
        /\ DocumentsOps[2].label = "DOCUMENTOS ORIGINARIOS"
        /\ Len(RowOps) = 3 * Len(self.inf_doc_list)
        /\ self.inf_doc_list = <<>> => Len(DocumentsOps) = 5
        /\ y = CursorAtDocuments(doc) + documents_height + 2 + 10 + 2 + 4 + Margin

C14_Witness ==
    /\ pc = "modal"
    /\ self.inf_doc_list = <<>>
    /\ Len(DocumentsOps) = 5
    /\ RowOps = <<>>

\* the receipt position of the configuration the constructor is given
config_receipt_pos == <<"TOP">>

\* the input says portrait: the tpImp text, blanks aside, is "1"
PortraitDoc(d) == d.tpImp.q # "none" /\ ~d.tpImp.nt /\ Strip(d.tpImp.text) = <<"1">>

\* C15: tpImp "1" selects portrait and any other value, a missing one
\* included, selects landscape; the page is created in that orientation;
\* in landscape the receipt position is LEFT whatever the configuration
\* says, in portrait it is the configured one.
C15_OrientationAndReceiptPosition ==
    Constructed =>
        /\ self.orientation = (IF PortraitDoc(doc) THEN <<"P">> ELSE <<"L">>)
        /\ page => ops[1].text = self.orientation
        /\ self.orientation = <<"L">> => self.receipt_pos = <<"LEFT">>
        /\ self.orientation = <<"P">> => self.receipt_pos = config_receipt_pos

(***************************************************************************)
(* Two constructor calls running side by side.  In this specification the  *)
(* variables hold one value per call: doc[r] is the document of call r,    *)
(* y[r] the cursor of the object it builds, and so on.  The calls share    *)
(* nothing: the module has no global that a call writes, and every         *)
(* attribute a call reads or writes is an attribute of its own object.     *)
(***************************************************************************)
Renderers == {1, 2}

\* the documents given to the two calls
PairDocs ==
    {RefDoc,
     [RefDoc EXCEPT !["tpAmb"] = Ns(<<"2">>)],
     [RefDoc EXCEPT !["tpImp"] = Ns(<<"2">>),
                    !["refs"] = <<NFe(Ns(KeyA)), CTe(Ns(KeyB)), NFe(Ns(KeyC))>>],
     [RefDoc EXCEPT !["rodoOS"] = "noveic"],
     [RefDoc EXCEPT !["CTeOS"] = FALSE]}

\* the phase called at lines 252-262 when the constructor stands at p
PhaseResult(p, f, d, y0, now) ==
    CASE p = "receipt" -> _draw_receipt_section(f, d, y0)
      [] p = "header" -> _draw_header_section(f, d, y0)
      [] p = "percurso" -> _draw_percurso_and_cfop(f, d, y0)
      [] p = "tomador" -> _draw_tomador_section(f, d, y0)
      [] p = "service" -> _draw_service_info_and_values(f, d, y0)
      [] p = "documents" -> _draw_documents_and_observations(f, d, y0)
      [] p = "modal" -> _draw_modal_specific_data_rodo_os(f, d, y0)
      [] p = "footer" -> _draw_footer_declaration(f, d, y0, now)
      [] p = "watermark" -> _draw_void_watermark_conditional(f, d, y0)

InitPair ==
    /\ doc \in [Renderers -> PairDocs]
    /\ pc = [r \in Renderers |-> "init"]
    /\ self = [r \in Renderers |-> NoFields]
    /\ y = [r \in Renderers |-> 0]
    /\ ops = [r \in Renderers |-> <<>>]
    /\ err = [r \in Renderers |-> NoErr]
    /\ page = [r \in Renderers |-> FALSE]

\* lines 69-246, in call r
ConstructOf(r) ==
    /\ pc[r] = "init"
    /\ IF ExtractErr(doc[r]) # NoErr
       THEN /\ pc' = [pc EXCEPT ![r] = "raised"]
            /\ err' = [err EXCEPT ![r] = ExtractErr(doc[r])]
            /\ self' = self
       ELSE /\ pc' = [pc EXCEPT ![r] = "add_page"]
            /\ err' = err
            /\ self' = [self EXCEPT ![r] = Extract(doc[r])]
    /\ UNCHANGED <<doc, y, ops, page>>

\* lines 248-249, in call r
AddPageOf(r) ==
    /\ pc[r] = "add_page"
    /\ page' = [page EXCEPT ![r] = TRUE]
    /\ ops' = [ops EXCEPT ![r] = Append(@, [phase |-> "page", op |-> "add_page", at |-> 0,
                                             h |-> 0, col |-> 0, label |-> "orientation",
                                             text |-> self[r].orientation])]
    /\ y' = [y EXCEPT ![r] = 0]
    /\ pc' = [pc EXCEPT ![r] = "receipt"]
    /\ UNCHANGED <<doc, self, err>>

\* the cursor of the first call read in place of the call's own
SharedCursor(r) == y[1]

\* self.y: the cursor the phases of call r read
CursorOf(r) == y[r]

\* one of lines 252-262, in call r
DrawOf(r) ==
    /\ pc[r] \in DrawingPhases
    /\ \E now \in Clock :
          LET res == PhaseResult(pc[r], self[r], doc[r], CursorOf(r), now) IN
          /\ ops' = [ops EXCEPT ![r] = @ \o res.ops]
          /\ IF res.err = NoErr
             THEN /\ pc' = [pc EXCEPT ![r] = PhaseOrder[PhaseIndex(pc[r]) + 1]]
                  /\ y' = [y EXCEPT ![r] = res.y]
                  /\ err' = err
             ELSE /\ pc' = [pc EXCEPT ![r] = "raised"]
                  /\ y' = y
                  /\ err' = [err EXCEPT ![r] = res.err]
    /\ UNCHANGED <<doc, self, page>>

NextPair == \E r \in Renderers : ConstructOf(r) \/ AddPageOf(r) \/ DrawOf(r)

SpecPair == InitPair /\ [][NextPair]_vars

\* two operations that are equal, or are both the "printed at" caption of
\* the footer and differ in its text only
SameButStamp(a, b) ==
    \/ a = b
    \/ /\ a.label = "Impresso em" /\ a.phase = "footer"
       /\ [a EXCEPT !.text = <<>>] = [b EXCEPT !.text = <<>>]

SoloInit(d) ==
    [doc |-> d, pc |-> "init", self |-> NoFields, y |-> 0, ops |-> <<>>, err |-> NoErr, page |-> FALSE]

SoloStep(s, now) ==
    IF s.pc = "init"
    THEN (IF ExtractErr(s.doc) # NoErr
          THEN [s EXCEPT !.pc = "raised", !.err = ExtractErr(s.doc)]
          ELSE [s EXCEPT !.pc = "add_page", !.self = Extract(s.doc)])
    ELSE IF s.pc = "add_page"
    THEN [s EXCEPT !.pc = "receipt", !.page = TRUE, !.y = 0,
                   !.ops = <<[phase |-> "page", op |-> "add_page", at |-> 0, h |-> 0, col |-> 0,
                              label |-> "orientation", text |-> s.self.orientation]>>]
    ELSE LET res == PhaseResult(s.pc, s.self, s.doc, s.y, now) IN
         IF res.err = NoErr
         THEN [s EXCEPT !.pc = PhaseOrder[PhaseIndex(s.pc) + 1], !.y = res.y, !.ops = @ \o res.ops]
         ELSE [s EXCEPT !.pc = "raised", !.err = res.err, !.ops = @ \o res.ops]

\* the state of a call on its own after k more statements, or at its end
\* if that comes earlier
RECURSIVE SoloAfter(_, _, _)
SoloAfter(s, k, now) ==
    IF k = 0 \/ s.pc \in {"done", "raised"} THEN s
    ELSE SoloAfter(SoloStep(s, now), k - 1, now)

\* the states a call on its own can be in when it stands at p
SoloAt(d, p) ==
    LET k == IF p = "raised" THEN Len(PhaseOrder) - 1 ELSE PhaseIndex(p) - 1
    IN  {SoloAfter(SoloInit(d), k, now) : now \in Clock}

StateOf(r) ==
    [doc |-> doc[r], pc |-> pc[r], self |-> self[r], y |-> y[r], ops |-> ops[r],
     err |-> err[r], page |-> page[r]]

ExpectedText(leaf) == IF leaf.q = "none" \/ leaf.nt THEN <<>> ELSE Strip(leaf.text)

IsText(t) == t \in Seq({t[i] : i \in DOMAIN t}) /\ t # Unassigned

\* C17: find_text gives the trimmed text of the matching child when the
\* child exists and has text, and the empty text otherwise: element None,
\* child missing, child without text.  It gives a text in every case.  A
\* child the first lookup does not find is looked up by its tag name
\* before the empty text is given.  Observed on the document number, which
\* is find_text(ide, "nCT") as it is.
C17_FindTextContract ==
    Constructed =>
        /\ IsText(self.nr_dacte)
        /\ self.nr_dacte = (IF doc.ide THEN ExpectedText(doc.nCT) ELSE <<>>)

C17_Witness ==
    /\ Constructed
    /\ doc.nCT = Ns(<<" ", "7", "\n">>)
    /\ self.nr_dacte = <<"7">>

\* the operations the step added
Added == SubSeq(ops', Len(ops) + 1, Len(ops'))

\* the phase at p run once more on the object as the step left it, the
\* cursor put back where the step found it, the clock reading now
Again(p, now) == PhaseResult(p, self', doc', y, now)

\* the clock readings a second run of the phase at p can meet: the footer
\* is the one phase PhaseResult hands the reading to
ReadingsFor(p) == IF p = "footer" THEN Clock ELSE {CHOOSE now \in Clock : TRUE}

ReadByDrawing ==
    {"orientation", "nr_dacte", "serie_cte", "key_cte", "tp_cte", "tp_serv", "prot_uso",
     "dh_emi_formatted", "mod", "cfop", "nat_op", "x_mun_ini", "uf_ini", "x_mun_fim",
     "uf_fim", "tomador_xnome", "tomador_cnpj_cpf", "tomador_ie", "tomador_xlgr",
     "tomador_nro", "tomador_xcpl", "tomador_xbairro", "tomador_xmun", "tomador_uf",
     "tomador_cep", "tomador_xpais", "tomador_fone", "v_tprest", "v_rec", "icms_cst",
     "icms_vbc", "icms_p_icms", "icms_v_icms", "icms_pred_bc", "icms_st", "cst_desc",
     "x_desc_serv", "q_carga", "modal_desc", "combined_obs", "nro_reg_estadual",
     "placa_veiculo", "uf_veiculo", "qr_code_data_unescaped"}

\* C20: when drawing starts every attribute a drawing phase reads has been
\* assigned, whichever optional nodes the accepted document has or lacks;
\* the plate, the state and the state registration of the vehicle among
\* them, for a document without rodoOS, with rodoOS and veic, and with
\* rodoOS without veic.  No phase fails reading an attribute.
C20_AttributesAssigned ==
    page =>
        /\ \A a \in ReadByDrawing : self[a] # Unassigned
        /\ ~(err.type = "AttributeError" /\ err.line = 700)

\* the cells of the value-components table, in drawing order
CompNameCells == SelectSeq(ops, LAMBDA o : o.phase = "service" /\ o.label = "comp_name")
CompValueCells == SelectSeq(ops, LAMBDA o : o.phase = "service" /\ o.label = "comp_value")

\* the service phase has drawn
ServiceDrawn == \E i \in 1..Len(ops) : ops[i].phase = "service" /\ ops[i].label = "x_desc_serv"

\* the first line of the components table: 6 below the second box, which
\* starts 16 below the position the service phase received
CompYStart ==
    LET i == CHOOSE j \in 1..Len(ops) : ops[j].phase = "service" /\ ops[j].label = "x_desc_serv"
    IN  (ops[i].at - 6) + 16 + 6

\* the column of the totals
TotalsColumn == 3

\* C21: the value-components table draws at most the first six components
\* of vPrest in document order.  Component i (counted from 0, i < 6) is
\* drawn at column i mod 3 and row i div 3, so no two drawn components
\* share a grid position and none stands in the fourth column, the one of
\* the totals; components from index 6 on are not drawn; the extracted
\* component list holds every component of the document.
C21_ComponentsGrid ==
    ServiceDrawn =>
        LET n == Len(self.comp_list)
            drawn == Min(n, 6)
            names == CompNameCells
            values == CompValueCells
        IN  /\ n = (IF doc.vPrest THEN Len(doc.comps) ELSE 0)
            /\ \A i \in 1..n :
                  self.comp_list[i].name = find_text(El(doc.comps[i]), "xNome")
            /\ Len(names) = drawn
            /\ Len(values) = drawn
            /\ \A i \in 0..(drawn - 1) :
                  /\ names[i + 1].col = i % 3
                  /\ names[i + 1].at = CompYStart + 4 * (i \div 3)
                  /\ names[i + 1].text = self.comp_list[i + 1].name
                  /\ values[i + 1].col = i % 3
                  /\ values[i + 1].at = CompYStart + 4 * (i \div 3)
                  /\ values[i + 1].text = self.comp_list[i + 1].value
                  /\ names[i + 1].col # TotalsColumn
            /\ \A i, j \in 1..drawn :
                  i # j => <<names[i].col, names[i].at>> # <<names[j].col, names[j].at>>

C21_Witness ==
    /\ pc = "done"
    /\ Len(self.comp_list) = 7
    /\ Len(CompNameCells) = 6
    /\ CompNameCells[6].col = 2
    /\ CompNameCells[4].col = 0
    /\ CompNameCells[4].at = CompNameCells[1].at + 4

(***************************************************************************)
(* dacte_os.DacteOS.__init__ (dacte_os.py lines 11-38): the variant that   *)
(* rewrites the parsed tree and hands it to its base class.  A tree is the *)
(* sequence of its elements in document order, each with its depth: the    *)
(* subtree of an element is the run of deeper elements that follows it.    *)
(* Under SpecRewrite doc holds the tree ET.fromstring returned and self    *)
(* the tree root as the constructor mutates it; ET.tostring writes, and    *)
(* the base class reads back, the tags, namespaces, attributes and texts   *)
(* this tree holds.                                                        *)
(***************************************************************************)
\* line 13: the namespace between the braces of URL
ns_url == "cte"

\* an element of the CT-e namespace / of no namespace
Nd(tag, depth, attrib, text) ==
    [tag |-> tag, ns |-> ns_url, depth |-> depth, attrib |-> attrib, text |-> text]
PlainNd(tag, depth, attrib, text) ==
    [tag |-> tag, ns |-> "", depth |-> depth, attrib |-> attrib, text |-> text]

\* the documents given to the constructor: with the cteOSProc wrapper (in
\* the namespace or in none), already rewritten or as the bare CTeOS;
\* with or without toma, rodoOS, a second toma, and an infCarga and infDoc
\* as child of infCte, elsewhere, in no namespace or nowhere
XmlChoices ==
    [root : {"cteOSProc", "plain_cteOSProc", "cteProc", "CTeOS"},
     toma : {"none", "one", "two"},
     rodoOS : BOOLEAN,
     infCarga : {"none", "child", "nested", "plain"},
     infDoc : BOOLEAN]

TreeOf(c) ==
    LET w == IF c.root = "CTeOS" THEN 0 ELSE 1
        wrapper == CASE c.root = "cteOSProc" -> <<Nd("cteOSProc", 0, "versao=4.00", "")>>
                     [] c.root = "plain_cteOSProc" -> <<PlainNd("cteOSProc", 0, "versao=4.00", "")>>
                     [] c.root = "cteProc" -> <<Nd("cteProc", 0, "versao=4.00", "")>>
                     [] OTHER -> <<>>
        cte == IF c.root = "cteProc" THEN "CTe" ELSE "CTeOS"
    IN  wrapper
        \o <<Nd(cte, w, "", ""),
             Nd("infCte", w + 1, "Id=CTe35", ""),
             Nd("ide", w + 2, "", ""),
             Nd("nCT", w + 3, "", "42")>>
        \o (IF c.infCarga = "plain" THEN <<PlainNd("infCarga", w + 2, "", "")>> ELSE <<>>)
        \o (IF c.toma # "none"
            THEN <<Nd("toma", w + 2, "", ""), Nd("xNome", w + 3, "", "TOMADOR")>>
            ELSE <<>>)
        \o (IF c.infCarga = "child" THEN <<Nd("infCarga", w + 2, "", ""), Nd("vCarga", w + 3, "", "1.00")>> ELSE <<>>)
        \o <<Nd("infCTeNorm", w + 2, "", "")>>
        \o (IF c.infCarga = "nested" THEN <<Nd("infCarga", w + 3, "", "")>> ELSE <<>>)
        \o (IF c.rodoOS
            THEN <<Nd("infModal", w + 3, "versaoModal=4.00", ""),
                   Nd("rodoOS", w + 4, "", ""),
                   Nd("TAF", w + 5, "", "123")>>
            ELSE <<>>)
        \o (IF c.infDoc THEN <<Nd("infDoc", w + 2, "", "")>> ELSE <<>>)
        \o (IF c.toma = "two" THEN <<Nd("toma", w + 2, "", "")>> ELSE <<>>)
        \o (IF w = 1 THEN <<Nd("protCTe", 1, "", ""), Nd("nProt", 2, "", "135")>> ELSE <<>>)

\* the least member of a set of positions, 0 for none
FirstOf(hits) == IF hits = {} THEN 0 ELSE CHOOSE i \in hits : \A j \in hits : i <= j

\* root.find(".//{ns}tag"): the first element below the root, in document
\* order, with that tag in the namespace; the root itself is no candidate
find_descendant(t, tag) ==
    FirstOf({i \in 2..Len(t) : t[i].ns = ns_url /\ t[i].tag = tag})

\* the last element of the subtree of element k
SubtreeEnd(t, k) ==
    CHOOSE e \in k..Len(t) :
        /\ \A i \in (k + 1)..e : t[i].depth > t[k].depth
        /\ e = Len(t) \/ t[e + 1].depth <= t[k].depth

\* element.find("cte:tag", ns): the first child with that tag in the namespace
find_child(t, k, tag) ==
    FirstOf({i \in (k + 1)..SubtreeEnd(t, k) :
                /\ t[i].depth = t[k].depth + 1
                /\ t[i].ns = ns_url
                /\ t[i].tag = tag})

\* element.tag = "{ns}tag"
set_tag(t, k, tag) == [t EXCEPT ![k].tag = tag, ![k].ns = ns_url]

\* ET.SubElement(element, "{ns}tag"): a new last child, without attributes or text
SubElement(t, k, tag) ==
    LET e == SubtreeEnd(t, k)
    IN  SubSeq(t, 1, e) \o <<Nd(tag, t[k].depth + 1, "", "")>> \o SubSeq(t, e + 1, Len(t))

\* lines 17-18
rename_root(t) ==
    IF t[1].tag = "cteOSProc" THEN set_tag(t, 1, "cteProc") ELSE t

\* lines 19-21, 22-24 and 25-27
rename_first(t, old, new) ==
    LET found == find_descendant(t, old)
    IN  IF found # 0 THEN set_tag(t, found, new) ELSE t

\* lines 31-33 and 31, 34-35
ensure_child(t, tag) ==
    LET inf_cte == find_descendant(t, "infCte")
    IN  IF inf_cte # 0 /\ find_child(t, inf_cte, tag) = 0
        THEN SubElement(t, inf_cte, tag)
        ELSE t

\* lines 15-37 as one function of the parsed tree
xml_fixed(t) ==
    ensure_child(
        ensure_child(
            rename_first(
                rename_first(
                    rename_first(rename_root(t), "CTeOS", "CTe"),
                    "rodoOS", "rodo"),
                "toma", "toma3"),
            "infCarga"),
        "infDoc")

InitRewrite ==
    /\ \E c \in XmlChoices : doc = TreeOf(c)
    /\ self = doc
    /\ pc = "rename_root"
    /\ y = 0
    /\ ops = <<>>
    /\ err = NoErr
    /\ page = FALSE

RewriteStep(from, to, t) ==
    /\ pc = from
    /\ pc' = to
    /\ self' = t
    /\ UNCHANGED <<doc, y, ops, err, page>>

RenameRoot == RewriteStep("rename_root", "rename_cte_os", rename_root(self))
RenameCTeOS == RewriteStep("rename_cte_os", "rename_rodo_os", rename_first(self, "CTeOS", "CTe"))
RenameRodoOS == RewriteStep("rename_rodo_os", "rename_toma", rename_first(self, "rodoOS", "rodo"))
RenameToma == RewriteStep("rename_toma", "ensure_inf_carga", rename_first(self, "toma", "toma3"))
EnsureInfCarga == RewriteStep("ensure_inf_carga", "ensure_inf_doc", ensure_child(self, "infCarga"))
EnsureInfDoc == RewriteStep("ensure_inf_doc", "super", ensure_child(self, "infDoc"))
\* lines 37-38: the tree goes to the base class as it stands
SuperInit == RewriteStep("super", "handed", self)

NextRewrite ==
    \/ RenameRoot
    \/ RenameCTeOS
    \/ RenameRodoOS
    \/ RenameToma
    \/ EnsureInfCarga
    \/ EnsureInfDoc
    \/ SuperInit

SpecRewrite == InitRewrite /\ [][NextRewrite]_vars

\* the first element of the tree, the root included, with that tag in the namespace
FirstElement(t, tag) ==
    FirstOf({i \in 1..Len(t) : t[i].ns = ns_url /\ t[i].tag = tag})

\* the children of element k with that tag in the namespace
ChildrenNamed(t, k, tag) ==
    IF k = 0 THEN {}
    ELSE {i \in (k + 1)..Len(t) :
            /\ \A j \in (k + 1)..i : t[j].depth > t[k].depth
            /\ t[i].depth = t[k].depth + 1
            /\ t[i].ns = ns_url
            /\ t[i].tag = tag}

\* the tags the rewrite replaces, and what it replaces them with
Renames == {<<"CTeOS", "CTe">>, <<"rodoOS", "rodo">>, <<"toma", "toma3">>}

\* the tag the contract gives element i of the input, "" for the one it has
ContractTag(t, i) ==
    IF i = 1 /\ t[1].tag = "cteOSProc" THEN "cteProc"
    ELSE IF \E r \in Renames : FirstElement(t, r[1]) = i
         THEN (CHOOSE r \in Renames : FirstElement(t, r[1]) = i)[2]
         ELSE ""

\* the tree without the elements at the positions A
Without(t, A) ==
    LET kept == (1..Len(t)) \ A
    IN  [i \in 1..Cardinality(kept) |->
            t[CHOOSE p \in kept : Cardinality({q \in kept : q < p}) = i - 1]]

\* the elements that can have been added: empty infCarga and infDoc
Addable(t) ==
    {i \in 1..Len(t) :
        /\ t[i].tag \in {"infCarga", "infDoc"}
        /\ t[i].ns = ns_url
        /\ t[i].attrib = ""
        /\ t[i].text = ""}

\* C22: the tag-rewriting variant hands the base class a tree in which a
\* cteOSProc root is renamed cteProc, the first CTeOS is renamed CTe, the
\* first rodoOS is renamed rodo, the first toma is renamed toma3, and
\* infCte, when present, has an infCarga child and an infDoc child; a child
\* that exists is not added again, so that the rewrite of the handed tree
\* adds nothing; every other element, attribute and text of the input is
\* as it was.
C22_RewriteContract ==
    pc = "handed" =>
        LET inf_in == FirstElement(doc, "infCte")
            inf_out == FirstElement(self, "infCte")
        IN  /\ \E A \in SUBSET Addable(self) :
                  LET rest == Without(self, A)
                  IN  /\ Len(rest) = Len(doc)
                      /\ \A i \in 1..Len(doc) :
                            IF ContractTag(doc, i) = "" THEN rest[i] = doc[i]
                            ELSE rest[i] = [doc[i] EXCEPT !.tag = ContractTag(doc, i),
                                                          !.ns = ns_url]
            /\ \A tag \in {"infCarga", "infDoc"} :
                  inf_out # 0 =>
                      Cardinality(ChildrenNamed(self, inf_out, tag))
                          = (IF ChildrenNamed(doc, inf_in, tag) = {} THEN 1
                             ELSE Cardinality(ChildrenNamed(doc, inf_in, tag)))
            /\ Len(xml_fixed(self)) = Len(self)
====
